---- MODULE Spec2Model ----
(***************************************************************************)
(* Model of the gotel tracing wrappers: the Redis client wrapper           *)
(* (oteltracingredis.Client), the example client's makeHTTPRequest, the    *)
(* Gin middleware wrapper (GinMiddleware), the example server's cache      *)
(* lookups and InitTracer.  One call is in flight at a time; every step of *)
(* a call is one action.                                                   *)
(***************************************************************************)
EXTENDS Integers, Sequences, FiniteSets, TLC

VARIABLES
    proc,            \* "boot" | "running" | "fatal": the process (InitTracer may log.Fatalf)
    calls,           \* number of wrapper calls started so far
    pc,              \* position inside the call in flight, "idle" between calls
    op,              \* the wrapper method in flight
    key,             \* the key (Redis, lookups) or path (HTTP, gin) argument of the call
    callerCancelled, \* the context handed in by the caller is cancelled
    ctx,             \* the context variable of the wrapper's frame
    reqCtx,          \* gin: c.Request.Context()
    savedCtx,        \* gin: otelgin's saved request context
    spans,           \* spans started during the call in flight
    cur,             \* index in spans of the span this call started, 0 if none
    under,           \* what the underlying command / handler produced
    underCtx,        \* the context the underlying call was given
    status,          \* HTTP response status of the call, 0 if none
    ret              \* what the caller got back

\* the example client's RunComprehensiveTest
VARIABLES
    cpc,             \* position inside RunComprehensiveTest, "idle" before it
    cctx,            \* the span carried by the function's ctx variable, 0 if none
    tree,            \* the spans started so far, each with its parent and times
    clock,           \* counts span start and end events
    userID,          \* the userID variable
    cresp            \* outcome of the request in flight

clientVars == <<cpc, cctx, tree, clock, userID, cresp>>

\* the example programs' main functions and their goroutines
VARIABLES
    prog,            \* the program launched: "server", "client" or "demo"
    mpc,             \* position of main, "off" before the launch
    gpc,             \* position of the signal goroutine of NewServer / NewClient
    sig,             \* SIGINT / SIGTERM has been delivered
    gCh,             \* the signal goroutine's channel holds a signal
    mCh,             \* main's channel holds a signal
    tpInit,          \* number of tracer providers InitTracer has installed
    tpShutdown,      \* number of calls of the shutdown function
    httpSrv,         \* the HTTP serving goroutine: "off", "serving", "closed", "returned"
    grpcSrv,         \* the gRPC server / serving goroutine, likewise
    wg,              \* the WaitGroup counter
    exitBy,          \* how the process ended, "none" while it runs
    ginUp,           \* the README example's Gin server has been started
    redisUsed        \* the README example's Redis client has been used

mainVars == <<prog, mpc, gpc, sig, gCh, mCh, tpInit, tpShutdown, httpSrv,
              grpcSrv, wg, exitBy, ginUp, redisUsed>>

baseVars == <<proc, calls, pc, op, key, callerCancelled, ctx, reqCtx, savedCtx,
              spans, cur, under, underCtx, status, ret>>

\* the example server's database handle
VARIABLES
    db,              \* s.db: "nil" when the connection failed at start-up, else "conn"
    dbAccesses       \* number of queries issued on s.db

serverVars == <<db, dbAccesses>>

\* one call of a helper of package grpc
VARIABLES
    fpc,             \* position in the helper: "idle", a statement, "returned"
    fop,             \* the helper called
    heap,            \* the backing arrays of the slices, by allocation order
    opts,            \* the parameter opts: a slice of the caller's
    callerBefore,    \* the caller's list and its whole array as they were at the call
    newOpts,         \* the local newOpts
    fret,            \* the slice returned
    addr,            \* NewClientWithTracing: parameter addr
    factory,         \* NewClientWithTracing: parameter factory
    dialed,          \* what grpc.Dial returned: conn and err
    client,          \* the named result client
    factoryCalls,    \* times the factory ran in this call
    nres             \* the three values NewClientWithTracing returned

nctVars == <<addr, factory, dialed, client, factoryCalls, nres>>
fnVars == <<fpc, fop, heap, opts, callerBefore, newOpts, fret, nctVars>>

\* one request to handleFailSometimes
VARIABLES
    rateStr,         \* c.Param("rate"), a sequence of characters
    rate,            \* the local rate, in thousandths
    draw             \* rand.Float64(), in thousandths

failVars == <<rateStr, rate, draw>>

\* the state outside the wrapper calls and the server's handlers
notBase == <<clientVars, mainVars, fnVars>>

ext == <<notBase, serverVars, failVars>>

\* everything but RunComprehensiveTest's state / but the programs' state /
\* but the grpc helpers' state
notClient == <<baseVars, mainVars, serverVars, fnVars, failVars>>
notMain == <<baseVars, clientVars, serverVars, fnVars, failVars>>
notFn == <<baseVars, clientVars, mainVars, serverVars, failVars>>

vars == <<baseVars, ext>>

\* ------------------------------------------------------------------ bounds

MaxCalls == 2

\* longest list of options a caller passes, and the most room its backing
\* array has after the list
MaxOpts == 3
MaxSpare == 1

\* longest :rate path parameter
MaxRateLen == 3

\* http.StatusBadRequest
StatusBadRequest == 400

\* --------------------------------------------------------------- constants

RedisOps == {"Ping", "GetFromCache", "SetToCache", "DeleteFromCache"}
LookupOps == {"handleGetFromCache", "GetCachedData"}
Keys == {"k1", "k2"}
Paths == {"/health", "/api/v1/users"}
Statuses == {200, 404, 500}

\* error values an underlying call can produce; "nil" is no error
RedisNil == "redis.Nil"
CtxCanceled == "context.Canceled"
OtherErrors == {"net.timeout", "io.EOF"}
Panic == "panic"
serverHTTP == "http://localhost:8080"

None == [val |-> "none", err |-> "none"]
NoCtx == [root |-> "none", span |-> 0]
CallerCtx == [root |-> "caller", span |-> 0]

\* err.Error(): the message of an error value
ErrMsg(e) ==
    CASE e = RedisNil -> "redis: nil"
      [] e = CtxCanceled -> "context canceled"
      [] e = "net.timeout" -> "i/o timeout"
      [] e = "io.EOF" -> "EOF"
      [] e = "json.marshal" -> "json: unsupported type"
      [] e = "http.newrequest" -> "net/http: invalid method"
      [] e = "json.bind" -> "invalid character"
      [] e = "gorm.error" -> "connection refused"
      [] e = "simulated failure" -> "simulated failure (rate)"
      [] OTHER -> "?"

\* strconv of a status code, as stored in an attribute
StatusStr(s) ==
    CASE s = 200 -> "200"
      [] s = 404 -> "404"
      [] s = 500 -> "500"
      [] OTHER -> "0"

\* http.StatusText
StatusText(s) ==
    CASE s = 200 -> "OK"
      [] s = 404 -> "Not Found"
      [] s = 500 -> "Internal Server Error"
      [] OTHER -> ""

BoolStr(b) == IF b THEN "true" ELSE "false"

\* ------------------------------------------------------------ span API

NewSpan(name, rec) ==
    [name |-> name, attrs |-> {}, status |-> "Unset", desc |-> "",
     errors |-> {}, ends |-> 0, recording |-> rec]

\* span.IsRecording(): false for the no-op span (index 0), for a span that
\* is not sampled and for a span that has ended
IsRecording(ss, i) == i # 0 /\ ss[i].recording /\ ss[i].ends = 0

\* span.SetAttributes(kv...): a later value replaces an earlier one
SetAttributes(ss, i, kv) ==
    IF IsRecording(ss, i)
    THEN [ss EXCEPT ![i].attrs =
            {a \in @ : \A b \in kv : b[1] # a[1]} \cup kv]
    ELSE ss

\* span.RecordError(err): adds an exception event, leaves the status alone
RecordError(ss, i, e) ==
    IF IsRecording(ss, i) /\ e # "nil"
    THEN [ss EXCEPT ![i].errors = @ \cup {ErrMsg(e)}]
    ELSE ss

\* span.SetStatus(code, description)
SetStatus(ss, i, code, d) ==
    IF IsRecording(ss, i)
    THEN [ss EXCEPT ![i].status = code,
                    ![i].desc = IF code = "Error" THEN d ELSE ""]
    ELSE ss

\* span.End()
SpanEnd(ss, i) == IF i = 0 THEN ss ELSE [ss EXCEPT ![i].ends = @ + 1]

\* trace.SpanFromContext
SpanFromContext(c) == c.span

\* the context tracer.Start returns: the parent context carrying the new span
\* variant: the new span is attached to context.Background()
TracerStartCtx_Background(parent, i) == [root |-> "background", span |-> i]

TracerStartCtx(parent, i) == [root |-> parent.root, span |-> i]

\* ctx.Done() is closed
ContextDone(c) == c.root = "caller" /\ callerCancelled

\* ------------------------------------------------------------ InitTracer

InitTracer ==
    /\ proc = "boot"
    /\ \E exporterOk \in BOOLEAN, resourceOk \in BOOLEAN :
         proc' = IF exporterOk /\ resourceOk THEN "running" ELSE "fatal"
    /\ UNCHANGED <<ext, calls, pc, op, key, callerCancelled, ctx, reqCtx, savedCtx,
                   spans, cur, under, underCtx, status, ret>>

\* the caller cancels its context (or its deadline passes) at any moment
CancelCaller ==
    /\ proc = "running"
    /\ pc # "idle"
    /\ pc # "returned"
    /\ ~callerCancelled
    /\ callerCancelled' = TRUE
    /\ UNCHANGED <<ext, proc, calls, pc, op, key, ctx, reqCtx, savedCtx, spans, cur,
                   under, underCtx, status, ret>>

\* a new call may begin: the previous call's spans have been handed to the exporter
CanCall == proc = "running" /\ pc \in {"idle", "returned"} /\ calls < MaxCalls

Begin(o, k, first) ==
    /\ calls' = calls + 1
    /\ op' = o
    /\ key' = k
    /\ pc' = first
    /\ ctx' = CallerCtx
    /\ reqCtx' = NoCtx
    /\ savedCtx' = NoCtx
    /\ spans' = <<>>
    /\ cur' = 0
    /\ under' = None
    /\ underCtx' = NoCtx
    /\ status' = 0
    /\ ret' = None
    /\ UNCHANGED <<ext, proc>>

\* -------------------------------------------------- Redis client wrapper

RedisSpanName(o) ==
    CASE o = "Ping" -> "Redis PING"
      [] o = "GetFromCache" -> "Redis GET"
      [] o = "SetToCache" -> "Redis SET"
      [] o = "DeleteFromCache" -> "Redis DEL"

\* the caller invokes one of the wrapper methods, its context live or cancelled
RedisCall ==
    /\ CanCall
    /\ \E o \in RedisOps, k \in Keys : Begin(o, k, "redis_start")
    /\ callerCancelled' \in BOOLEAN

\* ctx, span := c.tracer.Start(ctx, "Redis ...") ; defer span.End()
RedisStart ==
    /\ pc = "redis_start"
    /\ spans' = Append(spans, NewSpan(RedisSpanName(op), TRUE))
    /\ cur' = Len(spans) + 1
    /\ ctx' = TracerStartCtx(ctx, Len(spans) + 1)
    /\ pc' = "redis_cmd"
    /\ UNCHANGED <<ext, proc, calls, op, key, callerCancelled, reqCtx, savedCtx,
                   under, underCtx, status, ret>>

\* the errors the go-redis command can come back with under context c
RedisOutcomes(c) ==
    {"nil", RedisNil} \cup OtherErrors \cup
    (IF ContextDone(c) THEN {CtxCanceled} ELSE {})

\* what the command hands to the wrapper: the *StatusCmd for Ping, an error else
CmdResult(o, e) == [val |-> IF o = "Ping" THEN "StatusCmd" ELSE "-", err |-> e]

\* c.client.Ping(ctx) / Get(ctx, key).Scan(target) / Set(...).Err() / Del(...).Err()
RedisCmd ==
    /\ pc = "redis_cmd"
    /\ underCtx' = ctx
    /\ \/ \E e \in RedisOutcomes(ctx) :
            /\ under' = CmdResult(op, e)
            /\ pc' = "redis_recordErr"
       \/ /\ under' = [val |-> Panic, err |-> Panic]
          /\ pc' = "redis_return"
    /\ UNCHANGED <<ext, proc, calls, op, key, callerCancelled, ctx, reqCtx, savedCtx,
                   spans, cur, status, ret>>

\* variant: the error is recorded but the status is left alone
recordErr_NoStatus(ss, i, e) ==
    IF e # "nil" /\ e # RedisNil THEN RecordError(ss, i, e) ELSE ss

\* variant: redis.Nil is treated like any other error
recordErr_NilIsError(ss, i, e) ==
    IF e # "nil"
    THEN SetStatus(RecordError(ss, i, e), i, "Error", ErrMsg(e))
    ELSE ss

\* recordErr helper
recordErr(ss, i, e) ==
    IF e # "nil" /\ e # RedisNil
    THEN SetStatus(RecordError(ss, i, e), i, "Error", ErrMsg(e))
    ELSE ss

\* recordErr(span, err)
RedisRecordErr ==
    /\ pc = "redis_recordErr"
    /\ spans' = recordErr(spans, cur, under.err)
    /\ pc' = "redis_return"
    /\ UNCHANGED <<ext, proc, calls, op, key, callerCancelled, ctx, reqCtx, savedCtx,
                   cur, under, underCtx, status, ret>>

\* variant: redis.Nil is turned into a nil error for the caller
RedisReturn_SuppressNil ==
    /\ pc = "redis_return"
    /\ spans' = SpanEnd(spans, cur)
    /\ ret' = IF under.err = RedisNil THEN [under EXCEPT !.err = "nil"] ELSE under
    /\ pc' = "returned"
    /\ UNCHANGED <<ext, proc, calls, op, key, callerCancelled, ctx, reqCtx, savedCtx,
                   cur, under, underCtx, status>>

\* variant: span.End() is called before return instead of deferred
RedisReturn_NoDefer ==
    /\ pc = "redis_return"
    /\ spans' = IF under.val = Panic THEN spans ELSE SpanEnd(spans, cur)
    /\ ret' = under
    /\ pc' = "returned"
    /\ UNCHANGED <<ext, proc, calls, op, key, callerCancelled, ctx, reqCtx, savedCtx,
                   cur, under, underCtx, status>>

\* return cmd / return err, running the deferred span.End(); a panic of the
\* command unwinds through the same deferred call and reaches the caller
RedisReturn ==
    /\ pc = "redis_return"
    /\ spans' = SpanEnd(spans, cur)
    /\ ret' = under
    /\ pc' = "returned"
    /\ UNCHANGED <<ext, proc, calls, op, key, callerCancelled, ctx, reqCtx, savedCtx,
                   cur, under, underCtx, status>>

\* NewClient builds the client with redis.NewClient(opt) and installs no
\* tracing hook on it; Client() hands that *redis.Client to the caller, who
\* issues a command on it directly
ClientCall ==
    /\ CanCall
    /\ \E k \in Keys : Begin("Client", k, "raw_cmd")
    /\ callerCancelled' \in BOOLEAN

\* c.Client().Get(ctx, key) and the like: the bare go-redis command
ClientCmd ==
    /\ pc = "raw_cmd"
    /\ underCtx' = ctx
    /\ \E e \in RedisOutcomes(ctx) :
         /\ under' = CmdResult(op, e)
         /\ ret' = CmdResult(op, e)
    /\ pc' = "returned"
    /\ UNCHANGED <<ext, proc, calls, op, key, callerCancelled, ctx, reqCtx,
                   savedCtx, spans, cur, status>>

\* ------------------------------------- example server: cache lookups

LookupSpanName(o) ==
    IF o = "handleGetFromCache" THEN "get_from_cache" ELSE "GetCachedData"

LookupCall ==
    /\ CanCall
    /\ \E o \in LookupOps, k \in Keys : Begin(o, k, "lookup_start")
    /\ callerCancelled' \in BOOLEAN

\* ctx, span := s.tracer.Start(ctx, ...) ; defer span.End()
\* span.SetAttributes(attribute.String("cache.key", key))
LookupStart ==
    /\ pc = "lookup_start"
    /\ spans' = SetAttributes(Append(spans, NewSpan(LookupSpanName(op), TRUE)),
                              Len(spans) + 1, {<<"cache.key", key>>})
    /\ cur' = Len(spans) + 1
    /\ ctx' = TracerStartCtx(ctx, Len(spans) + 1)
    /\ pc' = "lookup_get"
    /\ UNCHANGED <<ext, proc, calls, op, key, callerCancelled, reqCtx, savedCtx,
                   under, underCtx, status, ret>>

\* val, err := s.redis.Get(ctx, key).Result()
LookupGet ==
    /\ pc = "lookup_get"
    /\ underCtx' = ctx
    /\ \E e \in RedisOutcomes(ctx) :
         under' = [val |-> IF e = "nil" THEN "value" ELSE "", err |-> e]
    /\ pc' = "lookup_classify"
    /\ UNCHANGED <<ext, proc, calls, op, key, callerCancelled, ctx, reqCtx, savedCtx,
                   spans, cur, status, ret>>

\* variant: a failed GET is annotated as a miss
LookupAnnotate_ErrIsMiss(ss, i, e) ==
    IF e # "nil"
    THEN SetAttributes(RecordError(ss, i, e), i, {<<"cache.hit", BoolStr(FALSE)>>})
    ELSE SetAttributes(ss, i, {<<"cache.hit", BoolStr(TRUE)>>})

\* the span after the outcome e of the GET has been classified
LookupAnnotate(ss, i, e) ==
    IF e = RedisNil THEN SetAttributes(ss, i, {<<"cache.hit", BoolStr(FALSE)>>})
    ELSE IF e # "nil" THEN RecordError(ss, i, e)
    ELSE SetAttributes(ss, i, {<<"cache.hit", BoolStr(TRUE)>>})

\* the HTTP status handleGetFromCache answers with
LookupStatus(e) == IF e = RedisNil THEN 404 ELSE IF e # "nil" THEN 500 ELSE 200

\* what GetCachedData returns
LookupReply(e, v) ==
    IF e = RedisNil THEN [val |-> "CacheResponse{hit=false}", err |-> "nil"]
    ELSE IF e # "nil" THEN [val |-> "nil", err |-> "status.Internal: Redis error"]
    ELSE [val |-> "CacheResponse{hit=true}", err |-> "nil"]

\* if err == redis.Nil {...} else if err != nil {...} ; ... ; deferred span.End()
LookupClassify ==
    /\ pc = "lookup_classify"
    /\ spans' = SpanEnd(LookupAnnotate(spans, cur, under.err), cur)
    /\ status' = IF op = "handleGetFromCache" THEN LookupStatus(under.err) ELSE 0
    /\ ret' = IF op = "GetCachedData" THEN LookupReply(under.err, under.val)
              ELSE [val |-> StatusStr(LookupStatus(under.err)), err |-> "nil"]
    /\ pc' = "returned"
    /\ UNCHANGED <<ext, proc, calls, op, key, callerCancelled, ctx, reqCtx, savedCtx,
                   cur, under, underCtx>>

\* ------------------------- example server: handlers that use the database

DBOps == {"handleGetUser", "handleCreateUser", "GetUser"}

DBSpanName(o) ==
    CASE o = "handleGetUser" -> "get_user_handler"
      [] o = "handleCreateUser" -> "create_user_handler"
      [] o = "GetUser" -> "GetUser"

DBCall ==
    /\ CanCall
    /\ \E o \in DBOps, k \in Keys : Begin(o, k, "db_start")
    /\ callerCancelled' \in BOOLEAN

\* ctx, span := s.tracer.Start(ctx, ...) ; defer span.End()
\* span.SetAttributes(user.id) in handleGetUser and GetUser
DBStart ==
    /\ pc = "db_start"
    /\ LET ss == Append(spans, NewSpan(DBSpanName(op), TRUE))
       IN spans' = IF op = "handleCreateUser" THEN ss
                   ELSE SetAttributes(ss, Len(spans) + 1, {<<"user.id", key>>})
    /\ cur' = Len(spans) + 1
    /\ ctx' = TracerStartCtx(ctx, Len(spans) + 1)
    /\ pc' = "db_check"
    /\ UNCHANGED <<ext, proc, calls, op, key, callerCancelled, reqCtx, savedCtx,
                   under, underCtx, status, ret>>

\* variant: the handle is used without the nil test
DBAvailable_Unchecked(d) == TRUE

\* s.db != nil
DBAvailable(d) == d # "nil"

\* the answer of a handler that ends before any query: status and return value
DBEarlyAnswer(o, st, code) ==
    /\ status' = IF o = "GetUser" THEN 0 ELSE st
    /\ ret' = IF o = "GetUser" THEN [val |-> "nil", err |-> code]
              ELSE [val |-> "json", err |-> "nil"]
    /\ pc' = "returned"

\* handleCreateUser: if err := c.ShouldBindJSON(&user); err != nil {...}
\* all three: if s.db == nil {...} ; the deferred span.End() on both returns
DBCheck ==
    /\ pc = "db_check"
    /\ \E bindOk \in BOOLEAN :
         IF op = "handleCreateUser" /\ ~bindOk
         THEN /\ under' = [val |-> "", err |-> "json.bind"]
              /\ spans' = SpanEnd(RecordError(spans, cur, "json.bind"), cur)
              /\ DBEarlyAnswer(op, 400, "nil")
         ELSE IF ~DBAvailable(db)
         THEN /\ under' = under
              /\ spans' = SpanEnd(
                    IF op = "handleGetUser"
                    THEN SetAttributes(spans, cur,
                            {<<"error", "database not available">>})
                    ELSE spans, cur)
              /\ DBEarlyAnswer(op, 503, "codes.Unavailable")
         ELSE /\ pc' = "db_query"
              /\ UNCHANGED <<under, spans, status, ret>>
    /\ UNCHANGED <<ext, proc, calls, op, key, callerCancelled, ctx, reqCtx,
                   savedCtx, cur, underCtx>>

\* the HTTP status / gRPC code for the outcome of the query
DBStatus(o, r) ==
    CASE r = "ok" -> IF o = "handleCreateUser" THEN 201 ELSE 200
      [] r = "gorm.ErrRecordNotFound" -> 404
      [] OTHER -> 500

DBCode(r) ==
    CASE r = "ok" -> "nil"
      [] r = "gorm.ErrRecordNotFound" -> "codes.NotFound"
      [] OTHER -> "codes.Internal"

\* s.db.WithContext(ctx).First(...) / Create(...) and the branches after it
DBQuery ==
    /\ pc = "db_query"
    /\ dbAccesses' = dbAccesses + 1
    /\ underCtx' = ctx
    /\ \E r \in {"ok", "gorm.error"} \cup
                (IF op = "handleCreateUser" THEN {}
                 ELSE {"gorm.ErrRecordNotFound"}) :
         /\ under' = [val |-> IF r = "ok" THEN "user" ELSE "",
                      err |-> IF r = "ok" THEN "nil" ELSE r]
         /\ spans' = SpanEnd(
               IF r = "gorm.error" THEN RecordError(spans, cur, r)
               ELSE IF r = "ok" /\ op = "handleCreateUser"
               THEN SetAttributes(spans, cur,
                       {<<"user.id", "1">>, <<"user.name", "n">>})
               ELSE spans, cur)
         /\ status' = IF op = "GetUser" THEN 0 ELSE DBStatus(op, r)
         /\ ret' = IF op = "GetUser"
                   THEN [val |-> IF r = "ok" THEN "GetUserResponse" ELSE "nil",
                         err |-> DBCode(r)]
                   ELSE [val |-> "json", err |-> "nil"]
    /\ pc' = "returned"
    /\ UNCHANGED <<notBase, failVars, db, proc, calls, op, key,
                   callerCancelled, ctx, reqCtx, savedCtx, cur>>

\* ------------------------------------ example client: makeHTTPRequest

HTTPCall ==
    /\ CanCall
    /\ \E k \in Paths : Begin("makeHTTPRequest", k, "http_start")
    /\ callerCancelled' \in BOOLEAN

\* ctx, span := c.tracer.Start(ctx, "HTTP <method> <path>") ; defer span.End()
\* span.SetAttributes(http.method, http.url)
HTTPStart ==
    /\ pc = "http_start"
    /\ spans' = SetAttributes(Append(spans, NewSpan("HTTP GET " \o key, TRUE)),
                              Len(spans) + 1,
                              {<<"http.method", "GET">>,
                               <<"http.url", serverHTTP \o key>>})
    /\ cur' = Len(spans) + 1
    /\ ctx' = TracerStartCtx(ctx, Len(spans) + 1)
    /\ pc' = "http_marshal"
    /\ UNCHANGED <<ext, proc, calls, op, key, callerCancelled, reqCtx, savedCtx,
                   under, underCtx, status, ret>>

\* a failure path of makeHTTPRequest: span.RecordError(err) ; return nil, err
HTTPFail(e) ==
    /\ under' = [val |-> "nil", err |-> e]
    /\ spans' = RecordError(spans, cur, e)
    /\ pc' = "http_return"

\* if body != nil { jsonBody, err := json.Marshal(body) ... }
HTTPMarshal ==
    /\ pc = "http_marshal"
    /\ \/ /\ pc' = "http_newreq"
          /\ UNCHANGED <<under, spans>>
       \/ HTTPFail("json.marshal")
    /\ UNCHANGED <<ext, proc, calls, op, key, callerCancelled, ctx, reqCtx, savedCtx,
                   cur, underCtx, status, ret>>

\* req, err := http.NewRequestWithContext(ctx, method, serverHTTP+path, reqBody)
HTTPNewRequest ==
    /\ pc = "http_newreq"
    /\ \/ /\ pc' = "http_do"
          /\ underCtx' = ctx
          /\ UNCHANGED <<under, spans>>
       \/ /\ HTTPFail("http.newrequest")
          /\ UNCHANGED underCtx
    /\ UNCHANGED <<ext, proc, calls, op, key, callerCancelled, ctx, reqCtx, savedCtx,
                   cur, status, ret>>

\* resp, err := c.httpClient.Do(req) and the two branches after it
HTTPDo ==
    /\ pc = "http_do"
    /\ \/ \E e \in OtherErrors \cup
                   (IF ContextDone(underCtx) THEN {CtxCanceled} ELSE {}) :
            /\ HTTPFail(e)
            /\ UNCHANGED status
       \/ \E st \in Statuses :
            /\ status' = st
            /\ under' = [val |-> StatusStr(st), err |-> "nil"]
            /\ spans' = SetAttributes(spans, cur,
                                      {<<"http.status_code", StatusStr(st)>>})
            /\ pc' = "http_return"
    /\ UNCHANGED <<ext, proc, calls, op, key, callerCancelled, ctx, reqCtx, savedCtx,
                   cur, underCtx, ret>>

\* return resp, nil / return nil, err, running the deferred span.End()
HTTPReturn ==
    /\ pc = "http_return"
    /\ spans' = SpanEnd(spans, cur)
    /\ ret' = under
    /\ pc' = "returned"
    /\ UNCHANGED <<ext, proc, calls, op, key, callerCancelled, ctx, reqCtx, savedCtx,
                   cur, under, underCtx, status>>

\* ------------------------------------------------------ GinMiddleware

\* an inbound request reaches the handler GinMiddleware returned; its context
\* may already carry a span of an enclosing instrumentation, sampled or not
GinCall ==
    /\ CanCall
    /\ \E k \in Paths : Begin("GinMiddleware", k, "gin_mw_start")
    /\ callerCancelled' = FALSE

\* codes for a server span from the response status (otelgin)
HTTPServerStatus(st) == IF st >= 500 THEN "Error" ELSE "Unset"

\* mw(c), first half: otelgin saves the request context, starts the request
\* span and passes it on through the request context
GinMwStart ==
    /\ pc = "gin_mw_start"
    /\ \E outer \in {"none", "recording", "unsampled"} :
         LET base == IF outer = "none" THEN <<>>
                     ELSE <<NewSpan("outer", outer = "recording")>>
             saved == [root |-> "caller", span |-> Len(base)]
         IN /\ savedCtx' = saved
            /\ spans' = SetAttributes(
                           Append(base, NewSpan("GET " \o key, TRUE)),
                           Len(base) + 1,
                           {<<"service.name", "svc">>, <<"env", "production">>})
            /\ cur' = Len(base) + 1
            /\ reqCtx' = TracerStartCtx(saved, Len(base) + 1)
    /\ pc' = "gin_handler"
    /\ UNCHANGED <<ext, proc, calls, op, key, callerCancelled, ctx, under, underCtx,
                   status, ret>>

\* mw(c), c.Next(): the handler chain writes the response status
GinHandler ==
    /\ pc = "gin_handler"
    /\ \E st \in Statuses :
         /\ status' = st
         /\ under' = [val |-> StatusStr(st), err |-> "nil"]
    /\ underCtx' = reqCtx
    /\ pc' = "gin_mw_finish"
    /\ UNCHANGED <<ext, proc, calls, op, key, callerCancelled, ctx, reqCtx, savedCtx,
                   spans, cur, ret>>

\* mw(c), second half: otelgin sets the span's status and status code, ends
\* the span and puts the saved request context back
GinMwFinish ==
    /\ pc = "gin_mw_finish"
    /\ spans' = SpanEnd(
                   SetAttributes(
                      SetStatus(spans, cur, HTTPServerStatus(status), ""),
                      cur, {<<"http.status_code", StatusStr(status)>>}),
                   cur)
    /\ reqCtx' = savedCtx
    /\ pc' = "gin_annotate"
    /\ UNCHANGED <<ext, proc, calls, op, key, callerCancelled, ctx, savedCtx, cur,
                   under, underCtx, status, ret>>

\* span := trace.SpanFromContext(c.Request.Context())
\* if span.IsRecording() && c.Writer.Status() >= http.StatusBadRequest {...}
GinAnnotate ==
    /\ pc = "gin_annotate"
    /\ LET span == SpanFromContext(reqCtx)
       IN spans' = IF IsRecording(spans, span) /\ status >= StatusBadRequest
                   THEN SetAttributes(
                           SetStatus(spans, span, "Error", StatusText(status)),
                           span, {<<"http.status_code", StatusStr(status)>>})
                   ELSE spans
    /\ ret' = under
    /\ pc' = "returned"
    /\ UNCHANGED <<ext, proc, calls, op, key, callerCancelled, ctx, reqCtx, savedCtx,
                   cur, under, underCtx, status>>

\* ---------------------------------------------------------- specification

BaseInit ==
    /\ proc = "boot"
    /\ calls = 0
    /\ pc = "idle"
    /\ op = "none"
    /\ key = "k1"
    /\ callerCancelled = FALSE
    /\ ctx = NoCtx
    /\ reqCtx = NoCtx
    /\ savedCtx = NoCtx
    /\ spans = <<>>
    /\ cur = 0
    /\ under = None
    /\ underCtx = NoCtx
    /\ status = 0
    /\ ret = None

ClientInit ==
    /\ cpc = "idle"
    /\ cctx = 0
    /\ tree = <<>>
    /\ clock = 0
    /\ userID = ""
    /\ cresp = "none"

MainInit ==
    /\ prog = "none"
    /\ mpc = "off"
    /\ gpc = "off"
    /\ sig = FALSE
    /\ gCh = FALSE
    /\ mCh = FALSE
    /\ tpInit = 0
    /\ tpShutdown = 0
    /\ httpSrv = "off"
    /\ grpcSrv = "off"
    /\ wg = 0
    /\ exitBy = "none"
    /\ ginUp = FALSE
    /\ redisUsed = FALSE

\* ------------------------------------------- grpc helpers (package grpc)

InstrumentOps == {"InstrumentGRPCServerOptions", "InstrumentGRPCDialOptions"}

\* the options a caller passes, per kind of list
OptionValues(f) ==
    IF f = "InstrumentGRPCServerOptions"
    THEN {"UnaryInterceptor", "Creds"}
    ELSE {"WithTransportCredentials", "WithBlock"}

\* grpc.StatsHandler(otelgrpc.NewServerHandler()) /
\* grpc.WithStatsHandler(otelgrpc.NewClientHandler())
Handler(f) ==
    IF f = "InstrumentGRPCServerOptions"
    THEN "StatsHandler(NewServerHandler)"
    ELSE "WithStatsHandler(NewClientHandler)"

\* the zero value of an option (an unset element of a backing array)
ZeroOption == ""

\* Go slices: a slice is a view <<array, length>> of a backing array in the
\* heap; its capacity is the length of that array; the nil slice has no array
NilSlice == [arr |-> 0, len |-> 0]

Cap(h, s) == IF s.arr = 0 THEN 0 ELSE Len(h[s.arr])

Contents(h, s) == IF s.arr = 0 THEN <<>> ELSE SubSeq(h[s.arr], 1, s.len)

Zeros(n) == [i \in 1..n |-> ZeroOption]

\* make([]T, l, c)
GoMake(h, l, c) ==
    [heap |-> Append(h, Zeros(c)), slice |-> [arr |-> Len(h) + 1, len |-> l]]

\* append(s, xs...): in place when the capacity allows, else a new array
GoAppend(h, s, xs) ==
    IF Len(xs) = 0
    THEN [heap |-> h, slice |-> s]
    ELSE IF s.len + Len(xs) <= Cap(h, s)
    THEN [heap |-> [h EXCEPT ![s.arr] =
                       [i \in 1..Len(@) |->
                          IF i > s.len /\ i <= s.len + Len(xs)
                          THEN xs[i - s.len] ELSE @[i]]],
          slice |-> [arr |-> s.arr, len |-> s.len + Len(xs)]]
    ELSE [heap |-> Append(h, Contents(h, s) \o xs),
          slice |-> [arr |-> Len(h) + 1, len |-> s.len + Len(xs)]]

OptionLists(f) ==
    UNION {[1..n -> OptionValues(f)] : n \in 0..MaxOpts}

\* a call f(opts...) with a list of the caller's, or f(a, b) with a fresh one:
\* the backing array may have room after the list's last element
InstrumentCall ==
    /\ fpc \in {"idle", "returned"}
    /\ \E f \in InstrumentOps, spare \in 0..MaxSpare :
       \E os \in OptionLists(f) :
         /\ fop' = f
         /\ heap' = IF Len(os) + spare = 0 THEN <<>>
                    ELSE <<os \o Zeros(spare)>>
         /\ opts' = IF Len(os) + spare = 0 THEN NilSlice
                    ELSE [arr |-> 1, len |-> Len(os)]
         /\ callerBefore' = [list |-> os, backing |-> os \o Zeros(spare)]
    /\ newOpts' = NilSlice
    /\ fret' = NilSlice
    /\ fpc' = "make"
    /\ UNCHANGED <<notFn, nctVars>>

\* variant: the new list is built on the caller's array
InstrumentMake_Alias ==
    /\ fpc = "make"
    /\ newOpts' = [arr |-> opts.arr, len |-> 0]
    /\ fpc' = "append_handler"
    /\ UNCHANGED <<notFn, nctVars, fop, heap, opts, callerBefore, fret>>

\* newOpts := make([]T, 0, len(opts)+1)
InstrumentMake ==
    /\ fpc = "make"
    /\ LET m == GoMake(heap, 0, opts.len + 1)
       IN /\ heap' = m.heap
          /\ newOpts' = m.slice
    /\ fpc' = "append_handler"
    /\ UNCHANGED <<notFn, nctVars, fop, opts, callerBefore, fret>>

\* newOpts = append(newOpts, <stats handler>)
InstrumentAppendHandler ==
    /\ fpc = "append_handler"
    /\ LET a == GoAppend(heap, newOpts, <<Handler(fop)>>)
       IN /\ heap' = a.heap
          /\ newOpts' = a.slice
    /\ fpc' = "append_opts"
    /\ UNCHANGED <<notFn, nctVars, fop, opts, callerBefore, fret>>

\* newOpts = append(newOpts, opts...)
InstrumentAppendOpts ==
    /\ fpc = "append_opts"
    /\ LET a == GoAppend(heap, newOpts, Contents(heap, opts))
       IN /\ heap' = a.heap
          /\ newOpts' = a.slice
    /\ fpc' = "return"
    /\ UNCHANGED <<notFn, nctVars, fop, opts, callerBefore, fret>>

\* return newOpts
InstrumentReturn ==
    /\ fpc = "return"
    /\ fret' = newOpts
    /\ fpc' = "returned"
    /\ UNCHANGED <<notFn, nctVars, fop, heap, opts, callerBefore, newOpts>>

\* ---- NewClientWithTracing

Addrs == {"localhost:50051", "users.internal:443"}
Factories == {"NewUserServiceClient", "NewCacheServiceClient"}
DialErrors == {"context deadline exceeded", "invalid target"}

\* the zero value of the client type T, and what a factory builds on a conn
ZeroClient == [made |-> "", cc |-> "nil"]
Factory(f, cc) == [made |-> f, cc |-> cc]

NoResult == [client |-> ZeroClient, conn |-> "nil", err |-> "none"]

\* NewClientWithTracing(addr, factory): the named results start as zero values
NCTCall ==
    /\ fpc \in {"idle", "returned"}
    /\ fop' = "NewClientWithTracing"
    /\ addr' \in Addrs
    /\ factory' \in Factories
    /\ dialed' = [conn |-> "nil", err |-> "none"]
    /\ client' = ZeroClient
    /\ factoryCalls' = 0
    /\ nres' = NoResult
    /\ fpc' = "dial"
    /\ UNCHANGED <<notFn, heap, opts, callerBefore, newOpts, fret>>

\* variant: the client is built before the error is looked at
NCTDial_FactoryFirst ==
    /\ fpc = "dial"
    /\ \E r \in {"nil"} \cup DialErrors :
         /\ dialed' = [conn |-> IF r = "nil" THEN addr ELSE "nil", err |-> r]
         /\ client' = Factory(factory, dialed'.conn)
         /\ factoryCalls' = factoryCalls + 1
         /\ IF r # "nil"
            THEN /\ nres' = [client |-> client', conn |-> "nil", err |-> r]
                 /\ fpc' = "returned"
            ELSE /\ nres' = [client |-> client', conn |-> dialed'.conn,
                             err |-> "nil"]
                 /\ fpc' = "returned"
    /\ UNCHANGED <<notFn, fop, heap, opts, callerBefore, newOpts, fret, addr,
                   factory>>

\* conn, err = grpc.Dial(addr, dialOptions...)
\* if err != nil { return client, nil, err }
NCTDial ==
    /\ fpc = "dial"
    /\ \E r \in {"nil"} \cup DialErrors :
         /\ dialed' = [conn |-> IF r = "nil" THEN addr ELSE "nil", err |-> r]
         /\ IF r # "nil"
            THEN /\ nres' = [client |-> client, conn |-> "nil", err |-> r]
                 /\ fpc' = "returned"
            ELSE /\ nres' = nres
                 /\ fpc' = "factory"
    /\ UNCHANGED <<notFn, fop, heap, opts, callerBefore, newOpts, fret, addr,
                   factory, client, factoryCalls>>

\* client = factory(conn) ; return client, conn, nil
NCTFactory ==
    /\ fpc = "factory"
    /\ client' = Factory(factory, dialed.conn)
    /\ factoryCalls' = factoryCalls + 1
    /\ nres' = [client |-> client', conn |-> dialed.conn, err |-> "nil"]
    /\ fpc' = "returned"
    /\ UNCHANGED <<notFn, fop, heap, opts, callerBefore, newOpts, fret, addr,
                   factory, dialed>>

FnInit ==
    /\ fpc = "idle"
    /\ fop = "none"
    /\ heap = <<>>
    /\ opts = NilSlice
    /\ callerBefore = [list |-> <<>>, backing |-> <<>>]
    /\ newOpts = NilSlice
    /\ fret = NilSlice
    /\ addr = "none"
    /\ factory = "none"
    /\ dialed = [conn |-> "nil", err |-> "none"]
    /\ client = ZeroClient
    /\ factoryCalls = 0
    /\ nres = NoResult

NextGrpc ==
    \/ InstrumentCall
    \/ InstrumentMake
    \/ InstrumentAppendHandler
    \/ InstrumentAppendOpts
    \/ InstrumentReturn
    \/ NCTCall
    \/ NCTDial
    \/ NCTFactory

\* ------------------------------ example server: handleFailSometimes

\* the characters a :rate path parameter is made of here
Digits == {"0", "1", "2", "5"}
RateChars == Digits \cup {".", "s"}

\* the non-empty parameters gin hands to the handler for /fail/:rate
RateStrings == UNION {[1..n -> RateChars] : n \in 1..MaxRateLen}

DigitVal(c) == CASE c = "0" -> 0 [] c = "1" -> 1 [] c = "2" -> 2 [] c = "5" -> 5

\* length of the longest prefix of digits
RECURSIVE DigitPrefixLen(_)
DigitPrefixLen(s) ==
    IF s = <<>> \/ Head(s) \notin Digits THEN 0
    ELSE 1 + DigitPrefixLen(Tail(s))

\* the number a sequence of digits writes, after the digits read so far
RECURSIVE IntOf(_, _)
IntOf(s, acc) ==
    IF s = <<>> THEN acc ELSE IntOf(Tail(s), acc * 10 + DigitVal(Head(s)))

RECURSIVE Pow10(_)
Pow10(n) == IF n = 0 THEN 1 ELSE 10 * Pow10(n - 1)

\* length of the unit: everything up to the next '.' or digit
RECURSIVE UnitPrefixLen(_)
UnitPrefixLen(s) ==
    IF s = <<>> \/ Head(s) \in Digits \cup {"."} THEN 0
    ELSE 1 + UnitPrefixLen(Tail(s))

\* time's unit table, in microseconds (0: unknown unit)
UnitMicros(u) ==
    CASE u = <<"m", "s">> -> 1000
      [] u = <<"s">> -> 1000000
      [] u = <<"m">> -> 60000000
      [] OTHER -> 0

ParseError == [ok |-> FALSE, d |-> 0]

\* time.ParseDuration, after the sign: a sequence of <number><unit>
\* segments, each number [0-9]*(\.[0-9]*)? with at least one digit; the
\* duration is kept in microseconds (the fractions written here are whole
\* numbers of microseconds, so nothing is lost before Milliseconds())
RECURSIVE ParseSegments(_, _)
ParseSegments(s, acc) ==
    IF s = <<>> THEN [ok |-> TRUE, d |-> acc]
    ELSE IF Head(s) \notin Digits \cup {"."} THEN ParseError
    ELSE LET pl == DigitPrefixLen(s)
             v == IntOf(SubSeq(s, 1, pl), 0)
             s1 == SubSeq(s, pl + 1, Len(s))
             hasDot == s1 # <<>> /\ Head(s1) = "."
             s2 == IF hasDot THEN Tail(s1) ELSE s1
             fl == IF hasDot THEN DigitPrefixLen(s2) ELSE 0
             f == IntOf(SubSeq(s2, 1, fl), 0)
             s3 == SubSeq(s2, fl + 1, Len(s2))
             ul == UnitPrefixLen(s3)
             unit == UnitMicros(SubSeq(s3, 1, ul))
         IN IF pl = 0 /\ fl = 0 THEN ParseError
            ELSE IF ul = 0 THEN ParseError
            ELSE IF unit = 0 THEN ParseError
            ELSE ParseSegments(SubSeq(s3, ul + 1, Len(s3)),
                               acc + v * unit + (f * unit) \div Pow10(fl))

ParseDuration(s) == IF s = <<>> THEN ParseError ELSE ParseSegments(s, 0)

\* Duration.Milliseconds(): the whole milliseconds of the duration
Milliseconds(d) == d \div 1000

\* var rate float64 = 0.5, in thousandths
DefaultRate == 500

\* rate, in thousandths, after
\*   if rateStr != "" { if parsed, err := time.ParseDuration(rateStr + "ms");
\*       err == nil { rate = float64(parsed.Milliseconds()) / 1000.0 } }
ParseRate(rs) ==
    IF rs # <<>> /\ ParseDuration(rs \o <<"m", "s">>).ok
    THEN Milliseconds(ParseDuration(rs \o <<"m", "s">>).d)
    ELSE DefaultRate

\* rand.Float64(): a value in [0, 1), in thousandths
Draws == {0, 1, 199, 200, 500, 999}

\* GET /api/v1/fail/:rate arrives
FailCall ==
    /\ CanCall
    /\ calls' = calls + 1
    /\ op' = "handleFailSometimes"
    /\ pc' = "fail_start"
    /\ ctx' = CallerCtx
    /\ reqCtx' = NoCtx
    /\ savedCtx' = NoCtx
    /\ spans' = <<>>
    /\ cur' = 0
    /\ under' = None
    /\ underCtx' = NoCtx
    /\ status' = 0
    /\ ret' = None
    /\ callerCancelled' = FALSE
    /\ rateStr' \in RateStrings
    /\ rate' = 0
    /\ draw' = 0
    /\ UNCHANGED <<notBase, serverVars, proc, key>>

\* ctx, span := s.tracer.Start(ctx, "fail_sometimes") ; defer span.End()
FailStart ==
    /\ pc = "fail_start"
    /\ spans' = Append(spans, NewSpan("fail_sometimes", TRUE))
    /\ cur' = Len(spans) + 1
    /\ ctx' = TracerStartCtx(ctx, Len(spans) + 1)
    /\ pc' = "fail_parse"
    /\ UNCHANGED <<ext, proc, calls, op, key, callerCancelled, reqCtx, savedCtx,
                   under, underCtx, status, ret>>

\* the rate is parsed ; span.SetAttributes(attribute.Float64("fail.rate", rate))
FailParse ==
    /\ pc = "fail_parse"
    /\ rate' = ParseRate(rateStr)
    /\ spans' = SetAttributes(spans, cur, {<<"fail.rate", ToString(rate')>>})
    /\ pc' = "fail_draw"
    /\ UNCHANGED <<notBase, serverVars, rateStr, draw, proc, calls, op, key,
                   callerCancelled, ctx, reqCtx, savedCtx, cur, under, underCtx,
                   status, ret>>

\* if rand.Float64() < rate { RecordError ; 500 } else { 200 } ; span.End()
FailReply ==
    /\ pc = "fail_draw"
    /\ draw' \in Draws
    /\ spans' = SpanEnd(IF draw' < rate
                        THEN RecordError(spans, cur, "simulated failure")
                        ELSE spans, cur)
    /\ status' = IF draw' < rate THEN 500 ELSE 200
    /\ ret' = [val |-> "json", err |-> "nil"]
    /\ pc' = "returned"
    /\ UNCHANGED <<notBase, serverVars, rateStr, rate, proc, calls, op, key,
                   callerCancelled, ctx, reqCtx, savedCtx, cur, under, underCtx>>

FailInit ==
    /\ rateStr = <<>>
    /\ rate = 0
    /\ draw = 0

NextFail ==
    \/ InitTracer
    \/ FailCall
    \/ FailStart
    \/ FailParse
    \/ FailReply

\* NewServer keeps whatever handle the connection attempt gave it
ServerInit ==
    /\ db \in {"nil", "conn"}
    /\ dbAccesses = 0

Init ==
    /\ BaseInit
    /\ ClientInit
    /\ MainInit
    /\ ServerInit
    /\ FnInit
    /\ FailInit

Next ==
    \/ InitTracer
    \/ CancelCaller
    \/ RedisCall
    \/ RedisStart
    \/ RedisCmd
    \/ RedisRecordErr
    \/ RedisReturn
    \/ ClientCall
    \/ ClientCmd
    \/ LookupCall
    \/ LookupStart
    \/ LookupGet
    \/ LookupClassify
    \/ DBCall
    \/ DBStart
    \/ DBCheck
    \/ DBQuery
    \/ HTTPCall
    \/ HTTPStart
    \/ HTTPMarshal
    \/ HTTPNewRequest
    \/ HTTPDo
    \/ HTTPReturn
    \/ GinCall
    \/ GinMwStart
    \/ GinHandler
    \/ GinMwFinish
    \/ GinAnnotate

Spec == Init /\ [][Next]_vars

\* --------------------------- example client: RunComprehensiveTest

\* tracer.Start(ctx, name): a new span whose parent is the span ctx carries
TreeStart(t, name, parent, now) ==
    Append(t, [name |-> name, parent |-> parent, startAt |-> now,
               endAt |-> 0, ends |-> 0, attrs |-> {}])

\* span.End(): the first call fixes the end time
TreeEnd(t, i, now) ==
    [t EXCEPT ![i].ends = @ + 1,
              ![i].endAt = IF @ = 0 THEN now ELSE @]

\* span.SetAttributes on a span of the tree
TreeSetAttributes(t, i, kv) ==
    IF t[i].ends = 0 THEN [t EXCEPT ![i].attrs = @ \cup kv] ELSE t

\* the span variable holding the span of that name
IdxOf(t, name) == CHOOSE i \in DOMAIN t : t[i].name = name

\* client.RunComprehensiveTest(ctx) with ctx := context.Background()
RCTCall ==
    /\ cpc = "idle"
    /\ cpc' = "rct_start"
    /\ UNCHANGED <<notClient, cctx, tree, clock, userID, cresp>>

\* ctx, span := c.tracer.Start(ctx, "comprehensive_test") ; defer span.End()
RCTStart ==
    /\ cpc = "rct_start"
    /\ tree' = TreeStart(tree, "comprehensive_test", cctx, clock + 1)
    /\ cctx' = Len(tree) + 1
    /\ clock' = clock + 1
    /\ cpc' = "rct_create_start"
    /\ UNCHANGED <<notClient, userID, cresp>>

\* ctx, createSpan := c.tracer.Start(ctx, "create_user_flow")
RCTCreateStart ==
    /\ cpc = "rct_create_start"
    /\ tree' = TreeStart(tree, "create_user_flow", cctx, clock + 1)
    /\ cctx' = Len(tree) + 1
    /\ clock' = clock + 1
    /\ cpc' = "rct_post_start"
    /\ UNCHANGED <<notClient, userID, cresp>>

\* c.makeHTTPRequest(ctx, "POST", "/api/v1/users", user): its span starts
RCTPostStart ==
    /\ cpc = "rct_post_start"
    /\ tree' = TreeStart(tree, "HTTP POST /api/v1/users", cctx, clock + 1)
    /\ clock' = clock + 1
    /\ cpc' = "rct_post_end"
    /\ UNCHANGED <<notClient, cctx, userID, cresp>>

\* makeHTTPRequest returns (deferred span.End()): an error or a response
RCTPostEnd ==
    /\ cpc = "rct_post_end"
    /\ tree' = TreeEnd(tree, IdxOf(tree, "HTTP POST /api/v1/users"), clock + 1)
    /\ clock' = clock + 1
    /\ cresp' \in {"err", "503", "201"}
    /\ cpc' = "rct_decode"
    /\ UNCHANGED <<notClient, cctx, userID>>

\* if resp.StatusCode == 201 { ... userID = fmt.Sprintf("%.0f", result["id"].(float64)) ... }
\* the type assertion panics when the body holds no numeric id
RCTDecode ==
    /\ cpc = "rct_decode"
    /\ IF cresp = "201"
       THEN \/ \E id \in {"1", "2"} :
                 /\ userID' = id
                 /\ tree' = TreeSetAttributes(tree, IdxOf(tree, "create_user_flow"),
                                              {<<"user.id", id>>})
                 /\ cpc' = "rct_create_end"
            \/ /\ cpc' = "rct_unwind"
               /\ UNCHANGED <<userID, tree>>
       ELSE /\ cpc' = "rct_create_end"
            /\ UNCHANGED <<userID, tree>>
    /\ UNCHANGED <<notClient, cctx, clock, cresp>>

\* createSpan.End()
RCTCreateEnd ==
    /\ cpc = "rct_create_end"
    /\ tree' = TreeEnd(tree, IdxOf(tree, "create_user_flow"), clock + 1)
    /\ clock' = clock + 1
    /\ cpc' = IF userID # "" THEN "rct_get_start" ELSE "rct_cache_start"
    /\ UNCHANGED <<notClient, cctx, userID, cresp>>

\* if userID != "" { ctx, getSpan := c.tracer.Start(ctx, "get_user_flow") :
\* the new ctx is local to the block, the function's ctx is left as it was
RCTGetStart ==
    /\ cpc = "rct_get_start"
    /\ tree' = TreeStart(tree, "get_user_flow", cctx, clock + 1)
    /\ clock' = clock + 1
    /\ cpc' = "rct_get_end"
    /\ UNCHANGED <<notClient, cctx, userID, cresp>>

\* if userID == "1" { c.grpcClient.GetUser(...) ... } ; getSpan.End()
RCTGetEnd ==
    /\ cpc = "rct_get_end"
    /\ \E found \in BOOLEAN :
         LET g == IdxOf(tree, "get_user_flow")
             t == IF userID = "1" /\ found
                  THEN TreeSetAttributes(tree, g, {<<"user.name", "Test User">>})
                  ELSE tree
         IN tree' = TreeEnd(t, g, clock + 1)
    /\ clock' = clock + 1
    /\ cpc' = "rct_cache_start"
    /\ UNCHANGED <<notClient, cctx, userID, cresp>>

\* ctx, cacheSpan := c.tracer.Start(ctx, "cache_test_flow")
RCTCacheStart ==
    /\ cpc = "rct_cache_start"
    /\ tree' = TreeStart(tree, "cache_test_flow", cctx, clock + 1)
    /\ cctx' = Len(tree) + 1
    /\ clock' = clock + 1
    /\ cpc' = "rct_cache_post_start"
    /\ UNCHANGED <<notClient, userID, cresp>>

\* c.makeHTTPRequest(ctx, "POST", "/api/v1/cache", cacheData): its span starts
RCTCachePostStart ==
    /\ cpc = "rct_cache_post_start"
    /\ tree' = TreeStart(tree, "HTTP POST /api/v1/cache", cctx, clock + 1)
    /\ clock' = clock + 1
    /\ cpc' = "rct_cache_post_end"
    /\ UNCHANGED <<notClient, cctx, userID, cresp>>

\* makeHTTPRequest returns; its results are dropped
RCTCachePostEnd ==
    /\ cpc = "rct_cache_post_end"
    /\ tree' = TreeEnd(tree, IdxOf(tree, "HTTP POST /api/v1/cache"), clock + 1)
    /\ clock' = clock + 1
    /\ cresp' \in {"err", "500", "200"}
    /\ cpc' = "rct_cache_get"
    /\ UNCHANGED <<notClient, cctx, userID>>

\* c.grpcClient.GetCachedData(...) ; cacheSpan.SetAttributes(...) ; cacheSpan.End()
RCTCacheGet ==
    /\ cpc = "rct_cache_get"
    /\ \E r \in {"err", "hit", "miss"} :
         LET c == IdxOf(tree, "cache_test_flow")
             t == IF r = "err" THEN tree
                  ELSE TreeSetAttributes(tree, c,
                          {<<"cache.hit", BoolStr(r = "hit")>>})
         IN tree' = TreeEnd(t, c, clock + 1)
    /\ clock' = clock + 1
    /\ cpc' = "rct_return"
    /\ UNCHANGED <<notClient, cctx, userID, cresp>>

\* the function returns: the deferred span.End() of comprehensive_test runs
RCTReturn ==
    /\ cpc = "rct_return"
    /\ tree' = TreeEnd(tree, IdxOf(tree, "comprehensive_test"), clock + 1)
    /\ clock' = clock + 1
    /\ cpc' = "returned"
    /\ UNCHANGED <<notClient, cctx, userID, cresp>>

\* the panic unwinds the frame: only the deferred calls run (resp.Body.Close()
\* and the span.End() of comprehensive_test), then the panic reaches the caller
RCTUnwind ==
    /\ cpc = "rct_unwind"
    /\ tree' = TreeEnd(tree, IdxOf(tree, "comprehensive_test"), clock + 1)
    /\ clock' = clock + 1
    /\ cpc' = "panicked"
    /\ UNCHANGED <<notClient, cctx, userID, cresp>>

NextClient ==
    \/ RCTCall
    \/ RCTStart
    \/ RCTCreateStart
    \/ RCTPostStart
    \/ RCTPostEnd
    \/ RCTDecode
    \/ RCTCreateEnd
    \/ RCTGetStart
    \/ RCTGetEnd
    \/ RCTCacheStart
    \/ RCTCachePostStart
    \/ RCTCachePostEnd
    \/ RCTCacheGet
    \/ RCTReturn
    \/ RCTUnwind

\* ------------------- the example programs: start-up, signals, shutdown

Programs == {"server", "client", "demo"}

Running == exitBy = "none"

\* the operating system starts one of the example programs
Launch ==
    /\ mpc = "off"
    /\ \E p \in Programs :
         /\ prog' = p
         /\ mpc' = IF p = "demo" THEN "d_new_server" ELSE "init_tracer"
    /\ UNCHANGED <<notMain, gpc, sig, gCh, mCh, tpInit, tpShutdown, httpSrv,
                   grpcSrv, wg, exitBy, ginUp, redisUsed>>

\* NewServer / NewClient: shutdown := tracing.InitTracer(...)
MainInitTracer ==
    /\ Running
    /\ mpc = "init_tracer"
    /\ tpInit' = tpInit + 1
    /\ mpc' = "spawn"
    /\ UNCHANGED <<notMain, prog, gpc, sig, gCh, mCh, tpShutdown, httpSrv,
                   grpcSrv, wg, exitBy, ginUp, redisUsed>>

\* go func() { c := make(chan os.Signal, 1) ; signal.Notify(c, ...) ; <-c ... }()
MainSpawn ==
    /\ Running
    /\ mpc = "spawn"
    /\ gpc' = "waiting"
    /\ mpc' = IF prog = "server" THEN "s_deps" ELSE "c_dial"
    /\ UNCHANGED <<notMain, prog, sig, gCh, mCh, tpInit, tpShutdown, httpSrv,
                   grpcSrv, wg, exitBy, ginUp, redisUsed>>

\* SIGINT / SIGTERM reaches the process: every channel registered with
\* signal.Notify gets it; with none registered the runtime ends the process
Signal ==
    /\ Running
    /\ mpc # "off"
    /\ ~sig
    /\ sig' = TRUE
    /\ gCh' = (gpc = "waiting")
    /\ mCh' = (mpc = "s_wait")
    /\ exitBy' = IF gpc = "waiting" \/ mpc = "s_wait" THEN exitBy ELSE "killed"
    /\ UNCHANGED <<notMain, prog, mpc, gpc, tpInit, tpShutdown, httpSrv,
                   grpcSrv, wg, ginUp, redisUsed>>

\* the signal goroutine: <-c
SigRecv ==
    /\ Running
    /\ gpc = "waiting"
    /\ gCh
    /\ gCh' = FALSE
    /\ gpc' = "shutdown"
    /\ UNCHANGED <<notMain, prog, mpc, sig, mCh, tpInit, tpShutdown, httpSrv,
                   grpcSrv, wg, exitBy, ginUp, redisUsed>>

\* the signal goroutine: shutdown()
SigShutdown ==
    /\ Running
    /\ gpc = "shutdown"
    /\ tpShutdown' = tpShutdown + 1
    /\ gpc' = "exit"
    /\ UNCHANGED <<notMain, prog, mpc, sig, gCh, mCh, tpInit, httpSrv,
                   grpcSrv, wg, exitBy, ginUp, redisUsed>>

\* the signal goroutine: os.Exit(0)
SigExit ==
    /\ Running
    /\ gpc = "exit"
    /\ exitBy' = "os.Exit"
    /\ gpc' = "done"
    /\ UNCHANGED <<notMain, prog, mpc, sig, gCh, mCh, tpInit, tpShutdown,
                   httpSrv, grpcSrv, wg, ginUp, redisUsed>>

\* a log.Fatalf of the program: InitTracer, net.Listen, grpc.NewClient, a
\* serving goroutine whose server fails
MainFatal ==
    /\ Running
    /\ \/ mpc \in {"init_tracer", "s_listen", "c_dial", "d_listen", "d_serving"}
       \/ httpSrv = "serving"
       \/ grpcSrv = "serving"
    /\ exitBy' = "fatal"
    /\ UNCHANGED <<notMain, prog, mpc, gpc, sig, gCh, mCh, tpInit, tpShutdown,
                   httpSrv, grpcSrv, wg, ginUp, redisUsed>>

\* ---- examples/server main

\* NewServer: database and Redis set-up, then setupHTTPRoutes, grpc.NewServer
ServerDeps ==
    /\ Running
    /\ mpc = "s_deps"
    /\ mpc' = "s_listen"
    /\ UNCHANGED <<notMain, prog, gpc, sig, gCh, mCh, tpInit, tpShutdown,
                   httpSrv, grpcSrv, wg, exitBy, ginUp, redisUsed>>

\* lis, err := net.Listen("tcp", grpcPort)
ServerListen ==
    /\ Running
    /\ mpc = "s_listen"
    /\ mpc' = "s_start"
    /\ UNCHANGED <<notMain, prog, gpc, sig, gCh, mCh, tpInit, tpShutdown,
                   httpSrv, grpcSrv, wg, exitBy, ginUp, redisUsed>>

\* wg.Add(1) ; go ListenAndServe ; wg.Add(1) ; go Serve ; signal.Notify(c, ...)
ServerStart ==
    /\ Running
    /\ mpc = "s_start"
    /\ httpSrv' = "serving"
    /\ grpcSrv' = "serving"
    /\ wg' = 2
    /\ mpc' = "s_wait"
    /\ UNCHANGED <<notMain, prog, gpc, sig, gCh, mCh, tpInit, tpShutdown,
                   exitBy, ginUp, redisUsed>>

\* main: <-c
ServerRecvSignal ==
    /\ Running
    /\ mpc = "s_wait"
    /\ mCh
    /\ mCh' = FALSE
    /\ mpc' = "s_http_shutdown"
    /\ UNCHANGED <<notMain, prog, gpc, sig, gCh, tpInit, tpShutdown, httpSrv,
                   grpcSrv, wg, exitBy, ginUp, redisUsed>>

\* httpServer.Shutdown(ctx)
ServerHTTPShutdown ==
    /\ Running
    /\ mpc = "s_http_shutdown"
    /\ httpSrv' = "closed"
    /\ mpc' = "s_grpc_stop"
    /\ UNCHANGED <<notMain, prog, gpc, sig, gCh, mCh, tpInit, tpShutdown,
                   grpcSrv, wg, exitBy, ginUp, redisUsed>>

\* grpcServer.GracefulStop()
ServerGracefulStop ==
    /\ Running
    /\ mpc = "s_grpc_stop"
    /\ grpcSrv' = "closed"
    /\ mpc' = "s_wg_wait"
    /\ UNCHANGED <<notMain, prog, gpc, sig, gCh, mCh, tpInit, tpShutdown,
                   httpSrv, wg, exitBy, ginUp, redisUsed>>

\* a serving goroutine returns from ListenAndServe / Serve: defer wg.Done()
ServeGoroutineDone ==
    /\ Running
    /\ prog = "server"
    /\ \/ /\ httpSrv = "closed"
          /\ httpSrv' = "returned"
          /\ UNCHANGED grpcSrv
       \/ /\ grpcSrv = "closed"
          /\ grpcSrv' = "returned"
          /\ UNCHANGED httpSrv
    /\ wg' = wg - 1
    /\ UNCHANGED <<notMain, prog, mpc, gpc, sig, gCh, mCh, tpInit, tpShutdown,
                   exitBy, ginUp, redisUsed>>

\* wg.Wait() ; log "Server shutdown complete" ; main returns
ServerWaitAndReturn ==
    /\ Running
    /\ mpc = "s_wg_wait"
    /\ wg = 0
    /\ mpc' = "done"
    /\ exitBy' = "main"
    /\ UNCHANGED <<notMain, prog, gpc, sig, gCh, mCh, tpInit, tpShutdown,
                   httpSrv, grpcSrv, wg, ginUp, redisUsed>>

\* ---- example client main

\* NewClient: grpc.NewClient(serverGRPC, dialOptions...)
ClientDial ==
    /\ Running
    /\ mpc = "c_dial"
    /\ mpc' = "c_tests"
    /\ UNCHANGED <<notMain, prog, gpc, sig, gCh, mCh, tpInit, tpShutdown,
                   httpSrv, grpcSrv, wg, exitBy, ginUp, redisUsed>>

\* TestHTTPEndpoints ; TestGRPCEndpoints ; RunComprehensiveTest
ClientTests ==
    /\ Running
    /\ mpc = "c_tests"
    /\ mpc' = "c_sleep"
    /\ UNCHANGED <<notMain, prog, gpc, sig, gCh, mCh, tpInit, tpShutdown,
                   httpSrv, grpcSrv, wg, exitBy, ginUp, redisUsed>>

\* time.Sleep(5 * time.Second) ; main returns, running the deferred client.Close()
ClientReturn ==
    /\ Running
    /\ mpc = "c_sleep"
    /\ mpc' = "done"
    /\ exitBy' = "main"
    /\ UNCHANGED <<notMain, prog, gpc, sig, gCh, mCh, tpInit, tpShutdown,
                   httpSrv, grpcSrv, wg, ginUp, redisUsed>>

\* ---- the README example server main

\* opts := InstrumentGRPCServerOptions() ; grpc.NewServer ; RegisterGreeterServer
DemoNewServer ==
    /\ Running
    /\ mpc = "d_new_server"
    /\ mpc' = "d_listen"
    /\ UNCHANGED <<notMain, prog, gpc, sig, gCh, mCh, tpInit, tpShutdown,
                   httpSrv, grpcSrv, wg, exitBy, ginUp, redisUsed>>

\* lis, err := net.Listen("tcp", ":50051")
DemoListen ==
    /\ Running
    /\ mpc = "d_listen"
    /\ mpc' = "d_serve"
    /\ UNCHANGED <<notMain, prog, gpc, sig, gCh, mCh, tpInit, tpShutdown,
                   httpSrv, grpcSrv, wg, exitBy, ginUp, redisUsed>>

\* grpcServer.Serve(lis), called on the main goroutine: it returns only when the
\* server is stopped (nothing here stops it) or fails (then log.Fatalf)
DemoServe ==
    /\ Running
    /\ mpc = "d_serve"
    /\ grpcSrv' = "serving"
    /\ mpc' = "d_serving"
    /\ UNCHANGED <<notMain, prog, gpc, sig, gCh, mCh, tpInit, tpShutdown,
                   httpSrv, wg, exitBy, ginUp, redisUsed>>

\* r := gin.Default() ; r.Use(GinMiddleware(...)) ; r.Run(":8080"): the code
\* after Serve, run once Serve has returned nil
DemoGinRun ==
    /\ Running
    /\ mpc = "d_gin"
    /\ ginUp' = TRUE
    /\ mpc' = "d_gin_running"
    /\ UNCHANGED <<notMain, prog, gpc, sig, gCh, mCh, tpInit, tpShutdown,
                   httpSrv, grpcSrv, wg, exitBy, redisUsed>>

\* InstrumentRedisClient(rdb) ; rdb.Set ; rdb.Get: the code after r.Run
DemoRedis ==
    /\ Running
    /\ mpc = "d_redis"
    /\ redisUsed' = TRUE
    /\ mpc' = "done"
    /\ exitBy' = "main"
    /\ UNCHANGED <<notMain, prog, gpc, sig, gCh, mCh, tpInit, tpShutdown,
                   httpSrv, grpcSrv, wg, ginUp>>

\* the steps main and the goroutines take when nothing fails
MainProgress ==
    \/ MainInitTracer
    \/ MainSpawn
    \/ SigRecv
    \/ SigShutdown
    \/ SigExit
    \/ ServerDeps
    \/ ServerListen
    \/ ServerStart
    \/ ServerRecvSignal
    \/ ServerHTTPShutdown
    \/ ServerGracefulStop
    \/ ServeGoroutineDone
    \/ ServerWaitAndReturn
    \/ ClientDial
    \/ ClientTests
    \/ ClientReturn
    \/ DemoNewServer
    \/ DemoListen
    \/ DemoServe

\* DemoGinRun and DemoRedis are not steps of the program: Serve never returns
\* nil, so "d_gin" and "d_redis" are never reached
NextMain ==
    \/ Launch
    \/ Signal
    \/ MainFatal
    \/ MainProgress

\* ------------------------------------------------------------ properties

RedisReturned == pc = "returned" /\ op \in RedisOps

\* C1: a Redis wrapper method hands back exactly what the go-redis command
\* produced (nil, redis.Nil, any other error, the *StatusCmd of Ping, or the
\* command's panic): nothing is replaced, wrapped or suppressed.
C1_ResultUnchanged ==
    RedisReturned =>
        /\ ret = under
        /\ ret.val = (IF under.val = Panic THEN Panic
                      ELSE IF op = "Ping" THEN "StatusCmd" ELSE "-")

C1_Witness ==
    /\ RedisReturned
    /\ op = "GetFromCache"
    /\ under.err = RedisNil
    /\ ret.err = RedisNil

\* C2: when the command of a Redis wrapper method returns an error other than
\* redis.Nil, the call's span has the error recorded and status Error with
\* the error's message as description; when it returns no error the span's
\* status is never Error.
C2_ErrorRecorded ==
    /\ (RedisReturned /\ under.val # Panic /\ under.err \notin {"nil", RedisNil}) =>
          /\ ErrMsg(under.err) \in spans[cur].errors
          /\ spans[cur].status = "Error"
          /\ spans[cur].desc = ErrMsg(under.err)
    /\ (op \in RedisOps /\ cur # 0 /\ under.err \in {"none", "nil"}) =>
          spans[cur].status # "Error"

C2_Witness ==
    /\ RedisReturned
    /\ op = "SetToCache"
    /\ under.err = "net.timeout"
    /\ spans[cur].status = "Error"
    /\ spans[cur].desc = "i/o timeout"

\* C3: every invocation of a Redis wrapper method starts exactly one span and
\* ends it exactly once before control returns to the caller, on every path:
\* success, redis.Nil, error, and a panic of the command.
C3_OneSpanEndedOnce ==
    /\ RedisReturned => (Len(spans) = 1 /\ cur = 1 /\ spans[1].ends = 1)
    /\ (op \in RedisOps /\ pc \notin {"returned", "redis_start"}) =>
          (Len(spans) = 1 /\ cur = 1 /\ spans[1].ends = 0)

C3_Witness ==
    /\ RedisReturned
    /\ under.val = Panic
    /\ ret.val = Panic
    /\ spans[1].ends = 1

\* C4: a lookup whose command reports the key absent (redis.Nil), in
\* Client.GetFromCache, handleGetFromCache and GetCachedData, never has an
\* error recorded on its span nor its status set to Error.
C4_AbsentIsNotError ==
    (op \in {"GetFromCache"} \cup LookupOps /\ cur # 0 /\ under.err = RedisNil) =>
        /\ spans[cur].errors = {}
        /\ spans[cur].status # "Error"

C4_Witness ==
    /\ pc = "returned"
    /\ op = "handleGetFromCache"
    /\ under.err = RedisNil
    /\ status = 404
    /\ spans[cur].ends = 1

\* C5: Client.GetFromCache for an absent key returns the not-found result and
\* its span carries the operation GET, the looked-up key and a found=false
\* annotation, with a non-Error status.
C5_AbsentSpanAnnotated ==
    (RedisReturned /\ op = "GetFromCache" /\ under.err = RedisNil) =>
        /\ ret.err = RedisNil
        /\ spans[cur].name = "Redis GET"
        /\ \E a \in spans[cur].attrs : a[2] = key
        /\ \E a \in spans[cur].attrs : a[2] = BoolStr(FALSE)
        /\ spans[cur].status # "Error"

\* C6: when makeHTTPRequest fails (marshalling, request construction or
\* transport), the same error is returned unchanged and the call's span ends
\* with status Error carrying the error's message.
C6_HTTPErrorMarksSpan ==
    (pc = "returned" /\ op = "makeHTTPRequest" /\ under.err # "nil") =>
        /\ ret = under
        /\ spans[cur].ends = 1
        /\ spans[cur].status = "Error"
        /\ spans[cur].desc = ErrMsg(under.err)

\* C7: the span of a request served under GinMiddleware ends with status
\* Error and http.status_code equal to the response status exactly when the
\* response status is 400 or above, and with a non-Error status below 400.
C7_GinStatusFromResponse ==
    (pc = "returned" /\ op = "GinMiddleware") =>
        /\ spans[cur].ends = 1
        /\ (status >= StatusBadRequest) =>
              /\ spans[cur].status = "Error"
              /\ <<"http.status_code", StatusStr(status)>> \in spans[cur].attrs
        /\ (status < StatusBadRequest) => spans[cur].status # "Error"

\* the steps at which a wrapper annotates the span of its call
AnnotationPoint ==
    pc \in {"redis_recordErr", "http_marshal", "http_newreq", "http_do",
            "gin_annotate"}

\* C8: every annotation and status a wrapper puts on the span of its call is
\* applied after the span was started and before it is ended, in the Redis
\* wrapper methods, in makeHTTPRequest and in GinMiddleware.
C8_AnnotateWhileOpen ==
    AnnotationPoint => (cur # 0 /\ spans[cur].ends = 0)

\* C9: a failure of the instrumentation (exporter or resource creation in
\* InitTracer, a non-recording span in GinMiddleware) never terminates the
\* process: it keeps running and wrapped operations still execute.
C9_InstrumentationNeverFatal ==
    proc # "fatal"

\* C10: in the Redis wrapper methods and makeHTTPRequest the underlying call
\* gets a context derived from the caller's, so it observes the caller's
\* cancellation, and the wrapper's own steps after the call never wait.
C10_CallerContextPropagated ==
    (op \in RedisOps \cup {"makeHTTPRequest"}) =>
        /\ (underCtx # NoCtx) =>
              /\ underCtx = ctx
              /\ underCtx.root = "caller"
              /\ (ContextDone(underCtx) <=> callerCancelled)
        /\ (pc \in {"redis_recordErr", "redis_return", "http_return"}) =>
              ENABLED (RedisRecordErr \/ RedisReturn \/ HTTPReturn)

C10_Witness ==
    /\ pc = "returned"
    /\ op = "makeHTTPRequest"
    /\ callerCancelled
    /\ ContextDone(underCtx)
    /\ ret.err = CtxCanceled

SpecClient == Init /\ [][NextClient]_vars

FlowSpans ==
    {"comprehensive_test", "create_user_flow", "get_user_flow", "cache_test_flow"}

\* C11: every span is started while its parent span (the span carried by the
\* context it was started from) is still open and is ended no later than
\* that parent; in particular the flow spans of RunComprehensiveTest and the
\* HTTP spans started inside them.
C11_ChildNestsInParent ==
    \A i \in DOMAIN tree :
        LET p == tree[i].parent IN
        p # 0 =>
            /\ tree[p].startAt < tree[i].startAt
            /\ (tree[p].endAt = 0 \/ tree[i].startAt < tree[p].endAt)
            /\ (tree[p].endAt # 0 =>
                   (tree[i].endAt # 0 /\ tree[i].endAt < tree[p].endAt))

\* C16: every span RunComprehensiveTest started is ended exactly once by the
\* time it returns control, on every path, the panicking type assertion
\* after a 201 response included.
C16_FlowSpansEndedOnce ==
    (cpc \in {"returned", "panicked"}) =>
        \A i \in DOMAIN tree :
            tree[i].name \in FlowSpans => tree[i].ends = 1

\* the Go scheduler runs every goroutine that can take a step
SpecMain == Init /\ [][NextMain]_vars /\ WF_vars(MainProgress)

EndedNormally == exitBy \in {"os.Exit", "main"}

\* C12: in every run of the example server and of the example client that
\* ends by SIGINT/SIGTERM or by main completing, the provider is initialized
\* exactly once and its shutdown function is called exactly once, after
\* initialization and before the process exits.
C12_InitOnceShutdownOnce ==
    (prog \in {"server", "client"} /\ EndedNormally) =>
        (tpInit = 1 /\ tpShutdown = 1)

\* main's listener has been handed the signal
MainGotSignal ==
    sig /\ (mCh \/ mpc \in {"s_http_shutdown", "s_grpc_stop", "s_wg_wait", "done"})

\* C17: after SIGINT/SIGTERM the example server does not exit until main's
\* graceful shutdown (httpServer.Shutdown, grpcServer.GracefulStop, wg.Wait
\* for both serving goroutines) has run to completion.
C17_ExitAfterGracefulShutdown ==
    (prog = "server" /\ MainGotSignal /\ EndedNormally) =>
        (mpc = "done" /\ httpSrv = "returned" /\ grpcSrv = "returned" /\ wg = 0)

\* C18: in every run of the README example server main in which no step
\* fails, the Gin server is eventually started and the Redis client
\* eventually used while the gRPC server is still serving.
C18_AllThreePartsComeUp ==
    (prog = "demo") ~>
        (exitBy # "none" \/ (grpcSrv = "serving" /\ ginUp /\ redisUsed))

\* C13: every Redis command executed through a client created by NewClient
\* is captured in a trace span, the commands issued on the client obtained
\* from Client() included.
C13_EveryCommandInASpan ==
    (pc = "returned" /\ op \in RedisOps \cup {"Client"} /\ under # None) =>
        \E i \in DOMAIN spans : spans[i].ends = 1

\* the cache.hit annotations of a span
CacheHit(sp) == {a[2] : a \in {b \in sp.attrs : b[1] = "cache.hit"}}

\* C15: in handleGetFromCache and GetCachedData the span carries cache.key
\* before the GET is issued, and afterwards cache.hit=true exactly when the
\* key was found, cache.hit=false exactly when it was absent, and no
\* cache.hit when the command failed with another error.
C15_CacheAnnotations ==
    (op \in LookupOps /\ cur # 0) =>
        /\ <<"cache.key", key>> \in spans[cur].attrs
        /\ (pc \in {"lookup_get", "lookup_classify"}) => CacheHit(spans[cur]) = {}
        /\ (pc = "returned") =>
              CacheHit(spans[cur]) =
                 (IF under.err = "nil" THEN {BoolStr(TRUE)}
                  ELSE IF under.err = RedisNil THEN {BoolStr(FALSE)}
                  ELSE {})

C15_Witness ==
    /\ op = "GetCachedData"
    /\ pc = "returned"
    /\ under.err = "io.EOF"
    /\ <<"cache.key", key>> \in spans[cur].attrs
    /\ CacheHit(spans[cur]) = {}

DBReturned == pc = "returned" /\ op \in DBOps

\* C20 (as stated): with s.db nil no request accesses the database;
\* handleGetUser and handleCreateUser answer 503 and GetUser returns
\* Unavailable, each ending its span, and the server keeps serving.
C20_NilDBAnswers503 ==
    (db = "nil") =>
        /\ dbAccesses = 0
        /\ DBReturned =>
              /\ spans[cur].ends = 1
              /\ proc = "running"
              /\ (op \in {"handleGetUser", "handleCreateUser"}) => status = 503
              /\ (op = "GetUser") => ret = [val |-> "nil", err |-> "codes.Unavailable"]

\* C20 (amended): with s.db nil no request accesses the database;
\* handleGetUser answers 503, handleCreateUser answers 400 when the request
\* body does not bind and 503 otherwise, GetUser returns Unavailable, each
\* ending its span, and the server keeps serving.
C20_NilDBNeverAccessed ==
    (db = "nil") =>
        /\ dbAccesses = 0
        /\ pc # "db_query"
        /\ DBReturned =>
              /\ spans[cur].ends = 1
              /\ proc = "running"
              /\ (op = "handleGetUser") => status = 503
              /\ (op = "handleCreateUser") =>
                    status = (IF under.err = "json.bind" THEN 400 ELSE 503)
              /\ (op = "GetUser") => ret = [val |-> "nil", err |-> "codes.Unavailable"]

C20_Witness ==
    /\ db = "nil"
    /\ DBReturned
    /\ op = "handleCreateUser"
    /\ status = 503
    /\ spans[cur].ends = 1
    /\ calls = MaxCalls

SpecGrpc == Init /\ [][NextGrpc]_vars

InstrumentReturned == fpc = "returned" /\ fop \in InstrumentOps

\* the caller's list and the whole of its backing array are as at the call
CallerListIntact ==
    /\ Contents(heap, opts) = callerBefore.list
    /\ opts.arr # 0 => heap[opts.arr] = callerBefore.backing

\* C14: InstrumentGRPCServerOptions and InstrumentGRPCDialOptions return,
\* for a list of n caller options, a new list of exactly n+1 options: the
\* stats handler, then the caller's n options in their order; the caller's
\* own list is never modified.
C14_HandlerThenCallerOptions ==
    /\ (fop \in InstrumentOps) => CallerListIntact
    /\ InstrumentReturned =>
          /\ fret.len = Len(callerBefore.list) + 1
          /\ Contents(heap, fret) = <<Handler(fop)>> \o callerBefore.list
          /\ fret.arr # opts.arr

C14_Witness ==
    /\ InstrumentReturned
    /\ fop = "InstrumentGRPCDialOptions"
    /\ callerBefore.list = <<"WithBlock", "WithTransportCredentials", "WithBlock">>
    /\ Cap(heap, opts) > opts.len
    /\ Contents(heap, fret) =
          <<"WithStatsHandler(NewClientHandler)", "WithBlock",
            "WithTransportCredentials", "WithBlock">>

NCTReturned == fpc = "returned" /\ fop = "NewClientWithTracing"

\* C19: NewClientWithTracing calls the factory only after a successful dial:
\* on a dial error it returns the zero client, a nil conn and that error, and
\* the factory never ran; on success it returns factory(conn), that conn and
\* a nil error, and the factory ran exactly once.
C19_FactoryOnlyAfterDial ==
    /\ (fop = "NewClientWithTracing" /\ fpc = "dial") => factoryCalls = 0
    /\ (fop = "NewClientWithTracing" /\ dialed.err \in DialErrors) =>
          /\ fpc = "returned"
          /\ factoryCalls = 0
          /\ nres = [client |-> ZeroClient, conn |-> "nil", err |-> dialed.err]
    /\ (NCTReturned /\ dialed.err = "nil") =>
          /\ factoryCalls = 1
          /\ nres = [client |-> Factory(factory, dialed.conn),
                     conn |-> dialed.conn, err |-> "nil"]
          /\ dialed.conn # "nil"

C19_Witness ==
    /\ NCTReturned
    /\ dialed.err = "invalid target"
    /\ nres.conn = "nil"
    /\ nres.err = "invalid target"
    /\ factoryCalls = 0

SpecFail == Init /\ [][NextFail]_vars

\* the rate has been parsed and recorded on the span
FailAnnotated == op = "handleFailSometimes" /\ pc \in {"fail_draw", "returned"}

\* the parameter is written as a decimal: digits, or digits '.' digits
IsDecimal(s) ==
    LET pl == DigitPrefixLen(s)
    IN /\ pl > 0
       /\ \/ pl = Len(s)
          \/ /\ pl + 1 < Len(s)
             /\ s[pl + 1] = "."
             /\ \A i \in (pl + 2)..Len(s) : s[i] \in Digits

\* the number a decimal writes, in thousandths
DecimalValue(s) ==
    LET pl == DigitPrefixLen(s)
        fl == IF pl = Len(s) THEN 0 ELSE Len(s) - pl - 1
    IN IntOf(SubSeq(s, 1, pl), 0) * 1000
       + (IntOf(SubSeq(s, pl + 2, Len(s)), 0) * 1000) \div Pow10(fl)

\* C21: for every :rate parameter written as a decimal r with 0 <= r <= 1,
\* the fail.rate recorded on the span and compared against the random draw
\* equals r; a parameter that cannot be parsed leaves the default rate 0.5.
C21_RateIsTheParameter ==
    FailAnnotated =>
        /\ (IsDecimal(rateStr) /\ DecimalValue(rateStr) <= 1000) =>
              /\ rate = DecimalValue(rateStr)
              /\ <<"fail.rate", ToString(DecimalValue(rateStr))>> \in spans[cur].attrs
              /\ (pc = "returned") =>
                    (status = 500 <=> draw < DecimalValue(rateStr))
        /\ ~ParseDuration(rateStr \o <<"m", "s">>).ok => rate = DefaultRate

====
